---- MODULE Spec2Model ----
(***************************************************************************)
(* A model of the NL parser (src/src/parsing/mod.rs).                      *)
(*                                                                         *)
(* Source text is a sequence of one-character strings.  Every parser of    *)
(* the source is an operator from the remaining input to a result record:  *)
(*   [t |-> "Ok", rest |-> <remaining input>, val |-> <parsed value>]       *)
(*   [t |-> "Error"]    nom::Err::Error, a recoverable mismatch             *)
(*   [t |-> "Failure"]  nom::Err::Failure, an unrecoverable failure         *)
(* The nom combinators are unfolded where they are used: alt tries the     *)
(* next alternative on Error only, opt turns Error into None, many0 and    *)
(* many1 stop on Error, pass Failure on, and report Error when an          *)
(* iteration succeeds without consuming input.  A parser calls another     *)
(* parser by name, through apply.                                          *)
(*                                                                         *)
(* input is the text handed to the operation, op the operation performed   *)
(* on it ("init" before any), result what it returned, file_name the name  *)
(* given to parse_string.  stack is the call stack of an operation that    *)
(* is followed call by call: one frame for each parser entered and not     *)
(* yet left; it is empty when an operation is taken in one step.           *)
(***************************************************************************)
EXTENDS Integers, Sequences, FiniteSets, TLC

VARIABLES input, file_name, op, result, stack

vars == <<input, file_name, op, result, stack>>

(***************************************************************************)
(* Characters and text.                                                    *)
(***************************************************************************)
Lower == {"a", "b", "c", "d", "e", "f", "g", "h", "i", "j", "k", "l", "m",
          "n", "o", "p", "q", "r", "s", "t", "u", "v", "w", "x", "y", "z"}

Upper == {"A", "B", "C", "D", "E", "F", "G", "H", "I", "J", "K", "L", "M",
          "N", "O", "P", "Q", "R", "S", "T", "U", "V", "W", "X", "Y", "Z"}

Digit == {"0", "1", "2", "3", "4", "5", "6", "7", "8", "9"}

Alpha == Lower \cup Upper

AlphaNumeric == Alpha \cup Digit

Space == {" ", "\t", "\r", "\n"}

Take(s, n) == SubSeq(s, 1, n)

Drop(s, n) == SubSeq(s, n + 1, Len(s))

StartsWith(s, t) == Len(s) >= Len(t) /\ SubSeq(s, 1, Len(t)) = t

\* Length of the longest prefix of s whose characters all lie in class.
PrefixLen(s, class) ==
    IF \A i \in 1..Len(s) : s[i] \in class
    THEN Len(s)
    ELSE (CHOOSE i \in 1..Len(s) :
              s[i] \notin class /\ \A j \in 1..(i - 1) : s[j] \in class) - 1

\* Length of the longest prefix of s that holds no character stop.
PrefixLenUntil(s, stop) ==
    IF \A i \in 1..Len(s) : s[i] # stop
    THEN Len(s)
    ELSE (CHOOSE i \in 1..Len(s) :
              s[i] = stop /\ \A j \in 1..(i - 1) : s[j] # stop) - 1

\* Index at which t first occurs in s, 0 when it does not occur.
FindSub(s, t) ==
    IF \E i \in 1..(Len(s) - Len(t) + 1) : SubSeq(s, i, i + Len(t) - 1) = t
    THEN CHOOSE i \in 1..(Len(s) - Len(t) + 1) :
             /\ SubSeq(s, i, i + Len(t) - 1) = t
             /\ \A j \in 1..(i - 1) : SubSeq(s, j, j + Len(t) - 1) # t
    ELSE 0

(***************************************************************************)
(* Parser results.                                                         *)
(***************************************************************************)
Ok(rest, val) == [t |-> "Ok", rest |-> rest, val |-> val]

Error == [t |-> "Error"]

Failure == [t |-> "Failure"]

Unit == [kind |-> "Unit"]

\* nom::bytes::complete::tag
tag(t, i) == IF StartsWith(i, t) THEN Ok(Drop(i, Len(t)), Unit) ELSE Error

\* nom::character::complete::char
char(c, i) == IF Len(i) > 0 /\ i[1] = c THEN Ok(Drop(i, 1), Unit) ELSE Error

\* nom::bytes::complete::take_while1
take_while1(class, i) ==
    LET n == PrefixLen(i, class)
    IN  IF n = 0 THEN Error ELSE Ok(Drop(i, n), Take(i, n))

\* delimited(char(open), take_while(|c| c != close), char(close))
delimited_until(open, close, i) ==
    IF Len(i) = 0 \/ i[1] # open THEN Error
    ELSE LET body == Drop(i, 1)
             n    == PrefixLenUntil(body, close)
         IN  IF n = Len(body) THEN Error
             ELSE Ok(Drop(body, n + 1), Take(body, n))

(***************************************************************************)
(* Keywords and symbols of the grammar.                                    *)
(***************************************************************************)
kw_struct == <<"s", "t", "r", "u", "c", "t">>

kw_trait == <<"t", "r", "a", "i", "t">>

kw_impl == <<"i", "m", "p", "l">>

kw_fn == <<"f", "n">>

kw_met == <<"m", "e", "t">>

kw_get == <<"g", "e", "t">>

kw_set == <<"s", "e", "t">>

kw_let == <<"l", "e", "t">>

kw_as == <<"a", "s">>

kw_dyn == <<"d", "y", "n">>

kw_mut == <<"m", "u", "t">>

kw_self == <<"s", "e", "l", "f">>

kw_default == <<"d", "e", "f", "a", "u", "l", "t">>

kw_str == <<"s", "t", "r">>

kw_true == <<"t", "r", "u", "e">>

kw_false == <<"f", "a", "l", "s", "e">>

sym_arrow == <<"-", ">">>

(***************************************************************************)
(* Lexical primitives.                                                     *)
(***************************************************************************)
multispace0(i) == Drop(i, PrefixLen(i, Space))

read_comment(i) ==
    IF StartsWith(i, <<"/", "/">>)
    THEN LET body == Drop(i, 2)
             k    == FindSub(body, <<"\n">>)
         IN  IF k = 0 THEN Error ELSE Ok(Drop(body, k), Take(body, k - 1))
    ELSE IF StartsWith(i, <<"/", "*">>)
    THEN LET body == Drop(i, 2)
             k    == FindSub(body, <<"*", "/">>)
         IN  IF k = 0 THEN Error ELSE Ok(Drop(body, k + 1), Take(body, k - 1))
    ELSE Error

RECURSIVE read_comments(_)
\* many0_count(terminated(read_comment, multispace0)); a comment always
\* consumes input, so the repetition never reports an empty iteration.
read_comments(i) ==
    LET c == read_comment(i)
    IN  IF c.t = "Ok" THEN read_comments(multispace0(c.rest)) ELSE i

\* value((), preceded(multispace0, read_comments)): blank never fails.
blank(i) == Ok(read_comments(multispace0(i)), Unit)

is_name == Alpha \cup {"_"}

is_method_char == AlphaNumeric \cup {"_"}

is_number == Digit \cup {".", "-"}

is_operator_symbol == {"=", "!", "~", "|", "&", "^", "%", "+", "-", "*", "/", "<", ">"}

RECURSIVE apply(_, _)

\* let (input, _) = blank(input)?;
after_blank(i) == apply("blank", i).rest

\* delimited(blank, alphanumeric1, blank)
read_struct_or_trait_name(i) ==
    LET r == take_while1(AlphaNumeric, after_blank(i))
    IN  IF r.t # "Ok" THEN r ELSE Ok(after_blank(r.rest), r.val)

\* delimited(blank, take_while1(is_method_char), blank)
read_method_name(i) ==
    LET r == take_while1(is_method_char, after_blank(i))
    IN  IF r.t # "Ok" THEN r ELSE Ok(after_blank(r.rest), r.val)

read_variable_name(i) == take_while1(is_name, i)

take_operator_symbol(i) == take_while1(is_operator_symbol, i)

(***************************************************************************)
(* Types (NLType).                                                         *)
(***************************************************************************)
NLType(kind) == [kind |-> kind]

NLNamedType(kind, name) == [kind |-> kind, name |-> name]

TypeNone == NLType("None")

identify_struct_or_trait_type(i0) ==
    LET amp          == char("&", i0)
        is_reference == amp.t = "Ok"
        i1           == after_blank(IF is_reference THEN amp.rest ELSE i0)
        mut          == tag(kw_mut, i1)
        is_mutable   == is_reference /\ mut.t = "Ok"
        i2           == IF is_reference
                        THEN after_blank(IF mut.t = "Ok" THEN mut.rest ELSE i1)
                        ELSE i1
        dyn          == tag(kw_dyn, i2)
        is_struct    == dyn.t # "Ok"
        name         == apply("read_struct_or_trait_name", IF is_struct THEN i2 ELSE dyn.rest)
    IN  IF name.t # "Ok" THEN name
        ELSE IF is_struct
        THEN IF is_reference
             THEN IF is_mutable
                  THEN Ok(name.rest, NLNamedType("MutableReferencedStruct", name.val))
                  ELSE Ok(name.rest, NLNamedType("ReferencedStruct", name.val))
             ELSE Ok(name.rest, NLNamedType("OwnedStruct", name.val))
        ELSE IF is_reference
             THEN IF is_mutable
                  THEN Ok(name.rest, NLNamedType("MutableReferencedTrait", name.val))
                  ELSE Ok(name.rest, NLNamedType("ReferencedTrait", name.val))
             ELSE Ok(name.rest, NLNamedType("OwnedTrait", name.val))

read_variable_type(i0) ==
    LET i         == after_blank(i0)
        n         == PrefixLen(i, AlphaNumeric)
        type_name == Take(i, n)
        input_new == Drop(i, n)
    IN  CASE type_name = <<"i", "8">>           -> Ok(input_new, NLType("I8"))
          [] type_name = <<"i", "1", "6">>      -> Ok(input_new, NLType("I16"))
          [] type_name = <<"i", "3", "2">>      -> Ok(input_new, NLType("I32"))
          [] type_name = <<"i", "6", "4">>      -> Ok(input_new, NLType("I64"))
          [] type_name = <<"u", "8">>           -> Ok(input_new, NLType("U8"))
          [] type_name = <<"u", "1", "6">>      -> Ok(input_new, NLType("U16"))
          [] type_name = <<"u", "3", "2">>      -> Ok(input_new, NLType("U32"))
          [] type_name = <<"u", "6", "4">>      -> Ok(input_new, NLType("U64"))
          [] type_name = <<"f", "3", "2">>      -> Ok(input_new, NLType("F32"))
          [] type_name = <<"f", "6", "4">>      -> Ok(input_new, NLType("F64"))
          [] type_name = <<"b", "o", "o", "l">> -> Ok(input_new, NLType("Boolean"))
          [] type_name = kw_str                 -> Ok(input_new, NLType("OwnedString"))
          [] OTHER ->
             \* opt(preceded(blank, tag("str"))) on the input after blank
             LET referenced == tag(kw_str, after_blank(after_blank(i)))
             IN  IF referenced.t = "Ok"
                 THEN Ok(referenced.rest, NLType("BorrowedString"))
                 ELSE apply("identify_struct_or_trait_type", i)

(***************************************************************************)
(* Literal constants (OpConstant).                                         *)
(***************************************************************************)
read_boolean_constant(i) ==
    LET n     == PrefixLen(i, Alpha)
        value == Take(i, n)
    IN  IF n = 0 THEN Error
        ELSE IF value = kw_true THEN Ok(Drop(i, n), [kind |-> "Boolean", bool |-> TRUE])
        ELSE IF value = kw_false THEN Ok(Drop(i, n), [kind |-> "Boolean", bool |-> FALSE])
        ELSE Error

read_cast(i) ==
    LET as == tag(kw_as, after_blank(i))
    IN  IF as.t # "Ok" THEN as ELSE apply("read_variable_type", after_blank(as.rest))

\* Digits without their leading zeros: the canonical form of a magnitude.
RECURSIVE StripZeros(_)
StripZeros(d) ==
    IF Len(d) > 1 /\ d[1] = "0" THEN StripZeros(Drop(d, 1)) ELSE d

DigitValue(c) ==
    CASE c = "0" -> 0 [] c = "1" -> 1 [] c = "2" -> 2 [] c = "3" -> 3
      [] c = "4" -> 4 [] c = "5" -> 5 [] c = "6" -> 6 [] c = "7" -> 7
      [] c = "8" -> 8 [] c = "9" -> 9

\* a <= b for two canonical magnitudes, compared digit by digit.
RECURSIVE DigitsLeq(_, _)
DigitsLeq(a, b) ==
    IF Len(a) # Len(b) THEN Len(a) < Len(b)
    ELSE IF Len(a) = 0 THEN TRUE
    ELSE IF a[1] # b[1] THEN DigitValue(a[1]) < DigitValue(b[1])
    ELSE DigitsLeq(Drop(a, 1), Drop(b, 1))

\* 2^63 - 1 and 2^63, the largest magnitudes of a positive and a negative i64.
I64MaxDigits == <<"9", "2", "2", "3", "3", "7", "2", "0", "3", "6", "8", "5",
                  "4", "7", "7", "5", "8", "0", "7">>

I64MinDigits == <<"9", "2", "2", "3", "3", "7", "2", "0", "3", "6", "8", "5",
                  "4", "7", "7", "5", "8", "0", "8">>

\* parse_i64 without the range test: a magnitude beyond 64 bits is kept.
parse_i64_unchecked(number) ==
    LET negative == Len(number) > 0 /\ number[1] = "-"
        digits   == IF negative THEN Drop(number, 1) ELSE number
        mag      == StripZeros(digits)
    IN  IF Len(digits) = 0 \/ \E k \in 1..Len(digits) : digits[k] \notin Digit
        THEN Error
        ELSE Ok(number, [negative |-> negative /\ mag # <<"0">>, magnitude |-> mag])

\* str::parse::<i64>: an optional sign, then one or more digits, in range.
\* The value is kept as sign and canonical magnitude (TLC integers are 32 bit).
parse_i64(number) ==
    LET negative == Len(number) > 0 /\ number[1] = "-"
        digits   == IF negative THEN Drop(number, 1) ELSE number
        mag      == StripZeros(digits)
    IN  IF Len(digits) = 0 \/ \E k \in 1..Len(digits) : digits[k] \notin Digit
        THEN Error
        ELSE IF ~DigitsLeq(mag, IF negative THEN I64MinDigits ELSE I64MaxDigits)
        THEN Error
        ELSE Ok(number, [negative |-> negative /\ mag # <<"0">>, magnitude |-> mag])

\* str::parse::<f64> on a run of digits, '.' and '-': an optional sign, then
\* digits around exactly one '.', with at least one digit.  The value is kept
\* as the literal's text (rounding to the nearest f64 is not modelled).
parse_f64(number) ==
    LET negative == Len(number) > 0 /\ number[1] = "-"
        body     == IF negative THEN Drop(number, 1) ELSE number
        dots     == {k \in 1..Len(body) : body[k] = "."}
    IN  IF \/ \E k \in 1..Len(body) : body[k] = "-"
           \/ Cardinality(dots) > 1
           \/ Len(body) - Cardinality(dots) = 0
        THEN Error
        ELSE Ok(number, [text |-> number])

read_numerical_constant(i) ==
    LET run == take_while1(is_number, i)
    IN  IF run.t # "Ok" THEN run
        ELSE
        LET number == run.val
            i1     == after_blank(run.rest)
            cast   == apply("read_cast", i1)
        IN  IF cast.t = "Failure" THEN cast
            ELSE
            LET i2        == IF cast.t = "Ok" THEN cast.rest ELSE i1
                cast_type == IF cast.t = "Ok" THEN cast.val ELSE TypeNone
            IN  IF \A k \in 1..Len(number) : number[k] # "."
                THEN LET value == parse_i64(number)
                     IN  IF value.t # "Ok" THEN value
                         ELSE Ok(i2, [kind |-> "Integer", value |-> value.val, cast |-> cast_type])
                ELSE LET value == parse_f64(number)
                     IN  IF value.t # "Ok" THEN value
                         ELSE Ok(i2, [kind |-> "Float", float |-> value.val, cast |-> cast_type])

read_string_constant(i) ==
    LET r == delimited_until("\"", "\"", after_blank(i))
    IN  IF r.t # "Ok" THEN r ELSE Ok(r.rest, [kind |-> "String", string |-> r.val])

\* alt((read_boolean_constant, read_numerical_constant, read_string_constant))
read_constant(i) ==
    LET b == apply("read_boolean_constant", i)
        n == apply("read_numerical_constant", i)
        s == apply("read_string_constant", i)
        c == IF b.t # "Error" THEN b ELSE IF n.t # "Error" THEN n ELSE s
    IN  IF c.t # "Ok" THEN c
        ELSE Ok(c.rest, [kind |-> "Constant", constant |-> c.val])

(***************************************************************************)
(* Expressions (NLOperation).                                              *)
(***************************************************************************)
OpTuple(items) == [kind |-> "Tuple", items |-> items]

OpBlock(operations) == [kind |-> "Block", operations |-> operations]

OpAssign(is_new, names, type_assignment, assignment) ==
    [kind |-> "Assign", is_new |-> is_new, to_assign |-> names,
     type_assignment |-> type_assignment, assignment |-> assignment]

OpUnary(operator, operand) ==
    [kind |-> "Operator", arity |-> 1, operator |-> operator, operand |-> operand]

OpBinary(operator, operand_a, operand_b) ==
    [kind |-> "Operator", arity |-> 2, operator |-> operator,
     operand_a |-> operand_a, operand_b |-> operand_b]

\* The match of read_urinary_operator; "unknown" is its default arm.
UnaryOperatorOf(symbol) ==
    CASE symbol = <<"!">> -> "LogicalNegate"
      [] symbol = <<"~">> -> "BitNegate"
      [] symbol = <<"-">> -> "ArithmeticNegate"
      [] OTHER -> "unknown"

\* The match of read_binary_operator; "unknown" is its default arm.
BinaryOperatorOf(symbol) ==
    CASE symbol = <<"=", "=">> -> "CompareEqual"
      [] symbol = <<"!", "=">> -> "CompareNotEqual"
      [] symbol = <<">", "=">> -> "CompareGreaterEqual"
      [] symbol = <<"<", "=">> -> "CompareLessEqual"
      [] symbol = <<">">>      -> "CompareGreater"
      [] symbol = <<"<">>      -> "CompareLess"
      [] symbol = <<"&", "&">> -> "LogicalAnd"
      [] symbol = <<"|", "|">> -> "LogicalOr"
      [] symbol = <<"^", "^">> -> "LogicalXor"
      [] symbol = <<"&">>      -> "BitAnd"
      [] symbol = <<"|">>      -> "BitOr"
      [] symbol = <<"^">>      -> "BitXor"
      [] symbol = <<"<", "<">> -> "BitLeftShift"
      [] symbol = <<">", ">">> -> "BitRightShift"
      [] symbol = <<"+">>      -> "ArithmeticAdd"
      [] symbol = <<"-">>      -> "ArithmeticSub"
      [] symbol = <<"%">>      -> "ArithmeticMod"
      [] symbol = <<"/">>      -> "ArithmeticDiv"
      [] symbol = <<"*">>      -> "ArithmeticMul"
      [] OTHER -> "unknown"

RECURSIVE many0_variable_names(_, _)
\* many0(terminated(read_variable_name, tuple((blank, char(','), blank))))
many0_variable_names(i, acc) ==
    LET name == apply("read_variable_name", i)
    IN  IF name.t # "Ok" THEN Ok(i, acc)
        ELSE LET comma == char(",", after_blank(name.rest))
             IN  IF comma.t # "Ok" THEN Ok(i, acc)
                 ELSE many0_variable_names(after_blank(comma.rest), Append(acc, name.val))

\* read_tuple_of_variable_names without the optional last name: a name is
\* kept only when a comma follows it.
read_tuple_of_variable_names_separated_only(i) ==
    LET tuple_str == delimited_until("(", ")", i)
    IN  IF tuple_str.t # "Ok" THEN tuple_str
        ELSE Ok(tuple_str.rest, many0_variable_names(tuple_str.val, <<>>).val)

read_tuple_of_variable_names(i) ==
    LET tuple_str == delimited_until("(", ")", i)
    IN  IF tuple_str.t # "Ok" THEN tuple_str
        ELSE LET variables == many0_variable_names(tuple_str.val, <<>>)
                 last_var  == apply("read_variable_name", variables.rest)
             IN  Ok(tuple_str.rest,
                    IF last_var.t = "Ok"
                    THEN Append(variables.val, last_var.val)
                    ELSE variables.val)

read_single_variable(i) ==
    LET name == apply("read_variable_name", i)
    IN  IF name.t # "Ok" THEN name ELSE Ok(name.rest, <<name.val>>)

RECURSIVE many0_tuple_items(_, _)
RECURSIVE many0_operations(_, _)

\* many0(terminated(read_operation, tuple((blank, char(','), blank))))
many0_tuple_items(i, acc) ==
    LET item == apply("read_operation", i)
    IN  IF item.t = "Failure" THEN item
        ELSE IF item.t = "Error" THEN Ok(i, acc)
        ELSE LET comma == char(",", after_blank(item.rest))
             IN  IF comma.t # "Ok" THEN Ok(i, acc)
                 ELSE many0_tuple_items(after_blank(comma.rest), Append(acc, item.val))

read_tuple(i) ==
    LET tuple_str == delimited_until("(", ")", after_blank(i))
    IN  IF tuple_str.t # "Ok" THEN tuple_str
        ELSE
        LET items == many0_tuple_items(tuple_str.val, <<>>)
        IN  IF items.t # "Ok" THEN items
            ELSE
            \* opt(terminated(read_operation, blank)); what it leaves of
            \* tuple_str is dropped
            LET last_item == apply("read_operation", items.rest)
            IN  IF last_item.t = "Failure" THEN last_item
                ELSE Ok(tuple_str.rest,
                        OpTuple(IF last_item.t = "Ok"
                                THEN Append(items.val, last_item.val)
                                ELSE items.val))

read_assignment(i) ==
    LET i1     == after_blank(i)
        let    == tag(kw_let, i1)
        is_new == let.t = "Ok"
        i2     == after_blank(IF is_new THEN let.rest ELSE i1)
        tuple  == apply("read_tuple_of_variable_names", i2)
        names  == IF tuple.t # "Error" THEN tuple ELSE apply("read_single_variable", i2)
    IN  IF names.t # "Ok" THEN names
        ELSE
        LET i3    == after_blank(names.rest)
            colon == char(":", i3)
            type  == IF colon.t = "Ok"
                     THEN apply("read_variable_type", colon.rest)
                     ELSE Ok(i3, TypeNone)
        IN  IF type.t # "Ok" THEN type
            ELSE
            LET equal == char("=", after_blank(type.rest))
            IN  IF equal.t # "Ok" THEN equal
                ELSE
                LET assignment == apply("read_operation", after_blank(after_blank(equal.rest)))
                IN  IF assignment.t # "Ok" THEN assignment
                    ELSE Ok(assignment.rest,
                            OpAssign(is_new, names.val, type.val, assignment.val))

read_urinary_operator(i) ==
    LET operator == apply("take_operator_symbol", after_blank(i))
    IN  IF operator.t # "Ok" THEN operator
        ELSE
        LET operand == apply("read_operation", after_blank(operator.rest))
        IN  IF operand.t # "Ok" THEN operand
            ELSE IF UnaryOperatorOf(operator.val) = "unknown" THEN Failure
            ELSE Ok(operand.rest, OpUnary(UnaryOperatorOf(operator.val), operand.val))

\* read_binary_operator with its second operand read by read_operation.
read_binary_operator_full_operand(i) ==
    LET operand_a == apply("read_sub_operation", after_blank(i))
    IN  IF operand_a.t # "Ok" THEN operand_a
        ELSE
        LET operator == apply("take_operator_symbol", after_blank(operand_a.rest))
        IN  IF operator.t # "Ok" THEN operator
            ELSE
            LET operand_b == apply("read_operation", after_blank(operator.rest))
            IN  IF operand_b.t # "Ok" THEN operand_b
                ELSE IF BinaryOperatorOf(operator.val) = "unknown" THEN Failure
                ELSE Ok(operand_b.rest,
                        OpBinary(BinaryOperatorOf(operator.val),
                                 operand_a.val, operand_b.val))

read_binary_operator(i) ==
    LET operand_a == apply("read_sub_operation", after_blank(i))
    IN  IF operand_a.t # "Ok" THEN operand_a
        ELSE
        LET operator == apply("take_operator_symbol", after_blank(operand_a.rest))
        IN  IF operator.t # "Ok" THEN operator
            ELSE
            LET operand_b == apply("read_sub_operation", after_blank(operator.rest))
            IN  IF operand_b.t # "Ok" THEN operand_b
                ELSE IF BinaryOperatorOf(operator.val) = "unknown" THEN Failure
                ELSE Ok(operand_b.rest,
                        OpBinary(BinaryOperatorOf(operator.val),
                                 operand_a.val, operand_b.val))

\* many0(read_operation)
many0_operations(i, acc) ==
    LET o == apply("read_operation", i)
    IN  IF o.t = "Failure" THEN o
        ELSE IF o.t = "Error" THEN Ok(i, acc)
        ELSE IF Len(o.rest) = Len(i) THEN Error
        ELSE many0_operations(o.rest, Append(acc, o.val))

read_code_block(i) ==
    LET open == char("{", after_blank(i))
    IN  IF open.t # "Ok" THEN open
        ELSE
        LET operations == many0_operations(open.rest, <<>>)
        IN  IF operations.t # "Ok" THEN operations
            ELSE
            LET close == char("}", after_blank(operations.rest))
            IN  IF close.t # "Ok" THEN close
                ELSE Ok(close.rest, OpBlock(operations.val))

\* alt((read_code_block, read_tuple, read_assignment, read_constant,
\*      read_urinary_operator))
read_sub_operation(i) ==
    LET a1 == apply("read_code_block", i)
    IN  IF a1.t # "Error" THEN a1 ELSE
    LET a2 == apply("read_tuple", i)
    IN  IF a2.t # "Error" THEN a2 ELSE
    LET a3 == apply("read_assignment", i)
    IN  IF a3.t # "Error" THEN a3 ELSE
    LET a4 == apply("read_constant", i)
    IN  IF a4.t # "Error" THEN a4 ELSE
    apply("read_urinary_operator", i)

\* alt((read_code_block, read_tuple, read_assignment, read_binary_operator,
\*      read_constant, read_urinary_operator))
read_operation(i) ==
    LET a1 == apply("read_code_block", i)
    IN  IF a1.t # "Error" THEN a1 ELSE
    LET a2 == apply("read_tuple", i)
    IN  IF a2.t # "Error" THEN a2 ELSE
    LET a3 == apply("read_assignment", i)
    IN  IF a3.t # "Error" THEN a3 ELSE
    LET a4 == apply("read_binary_operator", i)
    IN  IF a4.t # "Error" THEN a4 ELSE
    LET a5 == apply("read_constant", i)
    IN  IF a5.t # "Error" THEN a5 ELSE
    apply("read_urinary_operator", i)

(***************************************************************************)
(* Declarations.                                                           *)
(***************************************************************************)
NLArgument(name, nl_type) == [name |-> name, nl_type |-> nl_type]

NLStructVariable(name, my_type) == [name |-> name, my_type |-> my_type]

\* Option<NLBlock>
NoBlock == [some |-> FALSE]

SomeBlock(block) == [some |-> TRUE, operations |-> block.operations]

NLFunction(name, arguments, return_type, block) ==
    [name |-> name, arguments |-> arguments, return_type |-> return_type,
     block |-> block]

\* NLEncapsulationBlock
EncapsulationSome(block) == [kind |-> "Some", operations |-> block.operations]

EncapsulationNone == [kind |-> "None"]

EncapsulationDefault == [kind |-> "Default"]

read_argument_declaration(i0) ==
    LET i    == after_blank(i0)
        name == apply("read_variable_name", i)
    IN  IF name.t = "Ok"
        THEN LET colon == char(":", after_blank(name.rest))
             IN  IF colon.t # "Ok" THEN colon
                 ELSE LET nl_type == apply("read_variable_type", after_blank(colon.rest))
                      IN  IF nl_type.t # "Ok" THEN nl_type
                          ELSE Ok(after_blank(nl_type.rest), NLArgument(name.val, nl_type.val))
        ELSE LET amp      == char("&", i)
                 i1       == IF amp.t = "Ok" THEN after_blank(amp.rest) ELSE i
                 self     == tag(kw_self, i1)
                 mut      == tag(kw_mut, i1)
                 mut_self == IF mut.t = "Ok" THEN tag(kw_self, after_blank(mut.rest)) ELSE Error
             IN  IF amp.t = "Ok" /\ self.t = "Ok"
                 THEN Ok(self.rest, NLArgument(kw_self, NLType("SelfReference")))
                 ELSE IF amp.t = "Ok" /\ mut.t = "Ok"
                 THEN IF mut_self.t # "Ok" THEN mut_self
                      ELSE Ok(mut_self.rest, NLArgument(kw_self, NLType("MutableSelfReference")))
                 ELSE IF i # <<>> THEN Failure
                 ELSE Error

RECURSIVE many0_arguments(_, _)
\* many0(terminated(read_argument_declaration, char(',')))
many0_arguments(i, acc) ==
    LET arg == apply("read_argument_declaration", i)
    IN  IF arg.t = "Failure" THEN arg
        ELSE IF arg.t = "Error" THEN Ok(i, acc)
        ELSE LET comma == char(",", arg.rest)
             IN  IF comma.t # "Ok" THEN Ok(i, acc)
                 ELSE many0_arguments(comma.rest, Append(acc, arg.val))

read_argument_deceleration_list(i) ==
    LET arg_input == delimited_until("(", ")", i)
    IN  IF arg_input.t # "Ok" THEN arg_input
        ELSE
        LET arguments == many0_arguments(arg_input.val, <<>>)
        IN  IF arguments.t # "Ok" THEN arguments
            ELSE
            \* opt(terminated(read_argument_declaration, blank)); what it
            \* leaves of arg_input is dropped
            LET last_arg == apply("read_argument_declaration", arguments.rest)
            IN  IF last_arg.t = "Failure" THEN last_arg
                ELSE Ok(arg_input.rest,
                        IF last_arg.t = "Ok"
                        THEN Append(arguments.val, last_arg.val)
                        ELSE arguments.val)

read_return_type(i0) ==
    LET i      == after_blank(i0)
        tagged == tag(sym_arrow, i)
    IN  IF tagged.t = "Ok"
        THEN LET nl_type == apply("read_variable_type", after_blank(tagged.rest))
             IN  IF nl_type.t # "Ok" THEN nl_type
                 ELSE Ok(after_blank(nl_type.rest), nl_type.val)
        ELSE Ok(i, TypeNone)

\* The part read_method and read_function share after their keyword:
\* name, argument list, return type, then a block or a semicolon.
read_function_tail(i) ==
    LET name == apply("read_method_name", after_blank(i))
    IN  IF name.t # "Ok" THEN name
        ELSE
        LET args == apply("read_argument_deceleration_list", after_blank(name.rest))
        IN  IF args.t # "Ok" THEN args
            ELSE
            LET return_type == apply("read_return_type", after_blank(args.rest))
            IN  IF return_type.t # "Ok" THEN return_type
                ELSE
                LET i1    == after_blank(return_type.rest)
                    block == apply("read_code_block", i1)
                IN  IF block.t = "Failure" THEN block
                    ELSE IF block.t = "Ok"
                    THEN Ok(block.rest,
                            NLFunction(name.val, args.val, return_type.val,
                                       SomeBlock(block.val)))
                    ELSE \* No block, we expect a semicolon.
                         LET semi == char(";", i1)
                         IN  IF semi.t # "Ok" THEN semi
                             ELSE Ok(semi.rest,
                                     NLFunction(name.val, args.val,
                                                return_type.val, NoBlock))

read_method(i) ==
    LET met == tag(kw_met, after_blank(i))
    IN  IF met.t # "Ok" THEN met
        ELSE LET function == apply("read_function_tail", met.rest)
             IN  IF function.t # "Ok" THEN function
                 ELSE Ok(function.rest, [kind |-> "Method", method |-> function.val])

read_function(i) ==
    LET fn == tag(kw_fn, after_blank(i))
    IN  IF fn.t # "Ok" THEN fn
        ELSE LET function == apply("read_function_tail", fn.rest)
             IN  IF function.t # "Ok" THEN function
                 ELSE Ok(function.rest, [kind |-> "Function", function |-> function.val])

NLGetter(name, args, nl_type, block) ==
    [kind |-> "Getter", name |-> name, args |-> args, nl_type |-> nl_type,
     block |-> block]

NLSetter(name, args, block) ==
    [kind |-> "Setter", name |-> name, args |-> args, block |-> block]

read_getter(i) ==
    LET get == tag(kw_get, after_blank(i))
    IN  IF get.t # "Ok" THEN get
        ELSE
        LET name == apply("read_method_name", get.rest)
        IN  IF name.t # "Ok" THEN name
            ELSE
            LET i1         == after_blank(name.rest)
                colon      == char(":", i1)
                default    == IF colon.t = "Ok"
                              THEN tag(kw_default, after_blank(colon.rest))
                              ELSE Error
                is_default == default.t = "Ok"
            IN  IF is_default
                THEN LET nl_type == apply("read_return_type", after_blank(default.rest))
                     IN  IF nl_type.t # "Ok" THEN nl_type
                         ELSE LET semi == char(";", nl_type.rest)
                              IN  IF semi.t # "Ok" THEN semi
                                  ELSE Ok(semi.rest,
                                          NLGetter(name.val, <<>>, nl_type.val,
                                                   EncapsulationDefault))
                ELSE
                LET args == apply("read_argument_deceleration_list", i1)
                IN  IF args.t # "Ok" THEN args
                    ELSE
                    LET nl_type == apply("read_return_type", args.rest)
                    IN  IF nl_type.t # "Ok" THEN nl_type
                        ELSE
                        LET block == apply("read_code_block", nl_type.rest)
                        IN  IF block.t = "Failure" THEN block
                            ELSE IF block.t = "Ok"
                            THEN Ok(block.rest,
                                    NLGetter(name.val, args.val, nl_type.val,
                                             EncapsulationSome(block.val)))
                            ELSE LET semi == char(";", nl_type.rest)
                                 IN  IF semi.t # "Ok" THEN semi
                                     ELSE Ok(semi.rest,
                                             NLGetter(name.val, args.val, nl_type.val,
                                                      EncapsulationNone))

read_setter(i) ==
    LET set == tag(kw_set, after_blank(i))
    IN  IF set.t # "Ok" THEN set
        ELSE
        LET name == apply("read_method_name", set.rest)
        IN  IF name.t # "Ok" THEN name
            ELSE
            LET i1      == after_blank(name.rest)
                colon   == char(":", i1)
                default == IF colon.t = "Ok"
                           THEN tag(kw_default, after_blank(colon.rest))
                           ELSE Error
                semi0   == IF default.t = "Ok"
                           THEN char(";", after_blank(default.rest))
                           ELSE Error
            IN  IF semi0.t = "Ok"
                THEN Ok(semi0.rest, NLSetter(name.val, <<>>, EncapsulationDefault))
                ELSE
                LET args == apply("read_argument_deceleration_list", i1)
                IN  IF args.t # "Ok" THEN args
                    ELSE
                    LET i2    == after_blank(args.rest)
                        block == apply("read_code_block", i2)
                    IN  IF block.t = "Failure" THEN block
                        ELSE IF block.t = "Ok"
                        THEN Ok(block.rest,
                                NLSetter(name.val, args.val,
                                         EncapsulationSome(block.val)))
                        ELSE LET semi == char(";", i2)
                             IN  IF semi.t # "Ok" THEN semi
                                 ELSE Ok(semi.rest,
                                         NLSetter(name.val, args.val,
                                                  EncapsulationNone))

\* alt((read_method, read_getter, read_setter))
read_implementor(i) ==
    LET a1 == apply("read_method", i)
    IN  IF a1.t # "Error" THEN a1 ELSE
    LET a2 == apply("read_getter", i)
    IN  IF a2.t # "Error" THEN a2 ELSE
    apply("read_setter", i)

RECURSIVE many0_implementors(_, _)
\* many0(alt((read_method, read_getter, read_setter)))
many0_implementors(i, acc) ==
    LET m == apply("read_implementor", i)
    IN  IF m.t = "Failure" THEN m
        ELSE IF m.t = "Error" THEN Ok(i, acc)
        ELSE IF Len(m.rest) = Len(i) THEN Error
        ELSE many0_implementors(m.rest, Append(acc, m.val))

read_trait(i) ==
    LET trait == tag(kw_trait, after_blank(i))
    IN  IF trait.t # "Ok" THEN trait
        ELSE
        LET name == apply("read_struct_or_trait_name", after_blank(trait.rest))
        IN  IF name.t # "Ok" THEN name
            ELSE
            LET open == char("{", after_blank(name.rest))
            IN  IF open.t # "Ok" THEN open
                ELSE
                LET implementors == many0_implementors(after_blank(open.rest), <<>>)
                IN  IF implementors.t # "Ok" THEN implementors
                    ELSE
                    LET close == char("}", after_blank(implementors.rest))
                    IN  IF close.t # "Ok" THEN close
                        ELSE Ok(close.rest,
                                [kind |-> "Trait", name |-> name.val,
                                 implementors |-> implementors.val])

read_struct_variable(i) ==
    LET name == apply("read_variable_name", after_blank(i))
    IN  IF name.t # "Ok" THEN name
        ELSE
        LET colon == char(":", after_blank(name.rest))
        IN  IF colon.t # "Ok" THEN colon
            ELSE
            LET nl_type == apply("read_variable_type", after_blank(colon.rest))
            IN  IF nl_type.t # "Ok" THEN nl_type
                ELSE Ok(nl_type.rest, NLStructVariable(name.val, nl_type.val))

read_implementation(i) ==
    LET impl == tag(kw_impl, after_blank(i))
    IN  IF impl.t # "Ok" THEN impl
        ELSE
        LET name == apply("read_struct_or_trait_name", impl.rest)
        IN  IF name.t # "Ok" THEN name
            ELSE
            LET open == char("{", name.rest)
            IN  IF open.t # "Ok" THEN open
                ELSE
                LET methods == many0_implementors(after_blank(open.rest), <<>>)
                IN  IF methods.t # "Ok" THEN methods
                    ELSE
                    LET close == char("}", after_blank(methods.rest))
                    IN  IF close.t # "Ok" THEN close
                        ELSE Ok(close.rest,
                                [name |-> name.val, implementors |-> methods.val])

RECURSIVE many0_struct_variables(_, _)
\* many0(terminated(read_struct_variable, tuple((blank, char(',')))))
many0_struct_variables(i, acc) ==
    LET var == apply("read_struct_variable", i)
    IN  IF var.t # "Ok" THEN Ok(i, acc)
        ELSE LET comma == char(",", after_blank(var.rest))
             IN  IF comma.t # "Ok" THEN Ok(i, acc)
                 ELSE many0_struct_variables(comma.rest, Append(acc, var.val))

RECURSIVE many0_implementations(_, _)
\* many0(read_implementation)
many0_implementations(i, acc) ==
    LET impl == apply("read_implementation", i)
    IN  IF impl.t = "Failure" THEN impl
        ELSE IF impl.t = "Error" THEN Ok(i, acc)
        ELSE IF Len(impl.rest) = Len(i) THEN Error
        ELSE many0_implementations(impl.rest, Append(acc, impl.val))

read_struct(i) ==
    LET struct == tag(kw_struct, after_blank(i))
    IN  IF struct.t # "Ok" THEN struct
        ELSE
        LET name == apply("read_struct_or_trait_name", after_blank(struct.rest))
        IN  IF name.t # "Ok" THEN name
            ELSE
            LET open == char("{", after_blank(name.rest))
            IN  IF open.t # "Ok" THEN open
                ELSE
                LET variables == many0_struct_variables(after_blank(open.rest), <<>>)
                    i1        == after_blank(variables.rest)
                    \* Need to read the last struct.
                    last_var  == apply("read_struct_variable", i1)
                    all_vars  == IF last_var.t = "Ok"
                                 THEN Append(variables.val, last_var.val)
                                 ELSE variables.val
                    close     == char("}", after_blank(IF last_var.t = "Ok"
                                                 THEN last_var.rest ELSE i1))
                IN  IF close.t # "Ok" THEN close
                    ELSE
                    LET implementations == many0_implementations(close.rest, <<>>)
                    IN  IF implementations.t # "Ok" THEN implementations
                        ELSE Ok(implementations.rest,
                                [kind |-> "Struct", name |-> name.val,
                                 variables |-> all_vars,
                                 implementations |-> implementations.val])

(***************************************************************************)
(* File assembly.                                                          *)
(***************************************************************************)
\* alt((read_struct, read_trait, read_function))
read_root_deceleration(i) ==
    LET a1 == apply("read_struct", i)
    IN  IF a1.t # "Error" THEN a1 ELSE
    LET a2 == apply("read_trait", i)
    IN  IF a2.t # "Error" THEN a2 ELSE
    apply("read_function", i)

RECURSIVE many0_root_decelerations(_, _)
\* The loop of many1 after its first element.
many0_root_decelerations(i, acc) ==
    LET d == apply("read_root_deceleration", i)
    IN  IF d.t = "Failure" THEN d
        ELSE IF d.t = "Error" THEN Ok(i, acc)
        ELSE IF Len(d.rest) = Len(i) THEN Error
        ELSE many0_root_decelerations(d.rest, Append(acc, d.val))

\* many0 in the place of many1: no first declaration is required.
many0_for_many1_root_decelerations(i) == many0_root_decelerations(i, <<>>)

\* many1(alt((read_struct, read_trait, read_function)))
many1_root_decelerations(i) ==
    LET first == apply("read_root_deceleration", i)
    IN  IF first.t # "Ok" THEN first
        ELSE many0_root_decelerations(first.rest, <<first.val>>)

\* The elements of seq whose kind is k, in their order.
RECURSIVE OfKind(_, _)
OfKind(seq, k) ==
    IF seq = <<>> THEN <<>>
    ELSE IF Head(seq).kind = k THEN <<Head(seq)>> \o OfKind(Tail(seq), k)
    ELSE OfKind(Tail(seq), k)

NLFile(name, root_defs) ==
    [name |-> name,
     structs |-> OfKind(root_defs, "Struct"),
     traits |-> OfKind(root_defs, "Trait"),
     functions |-> OfKind(root_defs, "Function")]

\* parse_file_root without the test for an empty buffer.
parse_file_root_unguarded(i) ==
    LET root_defs == many1_root_decelerations(i)
    IN  IF root_defs.t # "Ok" THEN root_defs
        ELSE Ok(root_defs.rest, NLFile(<<>>, root_defs.val))

parse_file_root(i) ==
    IF i # <<>>
    THEN LET root_defs == many1_root_decelerations(i)
         IN  IF root_defs.t # "Ok" THEN root_defs
             ELSE Ok(root_defs.rest, NLFile(<<>>, root_defs.val))
    ELSE Ok(i, NLFile(<<>>, <<>>))

(***************************************************************************)
(* The calls a parser makes on an input, in the order the code makes       *)
(* them.  An iteration of many0 or many1 is listed as a call of its own    *)
(* that calls the repeated parser and then the next iteration.  The        *)
(* parsers of tokens, names, types and of the struct and trait             *)
(* declarations are taken as one call each.                                *)
(***************************************************************************)
Call(parser, i) == [parser |-> parser, input |-> i]

RECURSIVE alt_calls(_, _)
\* alt(parsers): each alternative in turn, up to the first that is no Error.
alt_calls(parsers, i) ==
    IF parsers = <<>> THEN <<>>
    ELSE <<Call(Head(parsers), i)>>
         \o (IF apply(Head(parsers), i).t = "Error"
             THEN alt_calls(Tail(parsers), i)
             ELSE <<>>)

read_operation_calls(i) ==
    alt_calls(<<"read_code_block", "read_tuple", "read_assignment",
                "read_binary_operator", "read_constant",
                "read_urinary_operator">>, i)

read_sub_operation_calls(i) ==
    alt_calls(<<"read_code_block", "read_tuple", "read_assignment",
                "read_constant", "read_urinary_operator">>, i)

\* read_binary_operator with its first operand read by read_operation.
read_binary_operator_calls_left_recursive(i) ==
    <<Call("read_operation", after_blank(i))>>

read_binary_operator_calls(i) ==
    LET operand_a == apply("read_sub_operation", after_blank(i))
        operator  == apply("take_operator_symbol", after_blank(operand_a.rest))
    IN  <<Call("read_sub_operation", after_blank(i))>>
        \o (IF operand_a.t = "Ok" /\ operator.t = "Ok"
            THEN <<Call("read_sub_operation", after_blank(operator.rest))>>
            ELSE <<>>)

read_urinary_operator_calls(i) ==
    LET operator == apply("take_operator_symbol", after_blank(i))
    IN  IF operator.t = "Ok"
        THEN <<Call("read_operation", after_blank(operator.rest))>>
        ELSE <<>>

read_assignment_calls(i) ==
    LET i1     == after_blank(i)
        let    == tag(kw_let, i1)
        i2     == after_blank(IF let.t = "Ok" THEN let.rest ELSE i1)
        tuple  == apply("read_tuple_of_variable_names", i2)
        names  == IF tuple.t # "Error" THEN tuple ELSE apply("read_single_variable", i2)
    IN  IF names.t # "Ok" THEN <<>>
        ELSE
        LET i3    == after_blank(names.rest)
            colon == char(":", i3)
            type  == IF colon.t = "Ok"
                     THEN apply("read_variable_type", colon.rest)
                     ELSE Ok(i3, TypeNone)
        IN  IF type.t # "Ok" THEN <<>>
            ELSE
            LET equal == char("=", after_blank(type.rest))
            IN  IF equal.t # "Ok" THEN <<>>
                ELSE <<Call("read_operation", after_blank(after_blank(equal.rest)))>>

\* One iteration of many0(terminated(read_operation, (blank, ',', blank))).
many0_tuple_items_calls(i) ==
    LET item == apply("read_operation", i)
    IN  <<Call("read_operation", i)>>
        \o (IF item.t # "Ok" THEN <<>>
            ELSE LET comma == char(",", after_blank(item.rest))
                 IN  IF comma.t # "Ok" THEN <<>>
                     ELSE <<Call("many0_tuple_items", after_blank(comma.rest))>>)

read_tuple_calls(i) ==
    LET tuple_str == delimited_until("(", ")", after_blank(i))
    IN  IF tuple_str.t # "Ok" THEN <<>>
        ELSE
        LET items == many0_tuple_items(tuple_str.val, <<>>)
        IN  <<Call("many0_tuple_items", tuple_str.val)>>
            \o (IF items.t = "Ok"
                THEN <<Call("read_operation", items.rest)>>
                ELSE <<>>)

\* One iteration of many0(read_operation).
many0_operations_calls(i) ==
    LET o == apply("read_operation", i)
    IN  <<Call("read_operation", i)>>
        \o (IF o.t = "Ok" /\ Len(o.rest) # Len(i)
            THEN <<Call("many0_operations", o.rest)>>
            ELSE <<>>)

read_code_block_calls(i) ==
    LET open == char("{", after_blank(i))
    IN  IF open.t = "Ok" THEN <<Call("many0_operations", open.rest)>> ELSE <<>>

read_function_tail_calls(i) ==
    LET name == apply("read_method_name", after_blank(i))
    IN  IF name.t # "Ok" THEN <<>>
        ELSE
        LET args == apply("read_argument_deceleration_list", after_blank(name.rest))
        IN  IF args.t # "Ok" THEN <<>>
            ELSE
            LET return_type == apply("read_return_type", after_blank(args.rest))
            IN  IF return_type.t # "Ok" THEN <<>>
                ELSE <<Call("read_code_block", after_blank(return_type.rest))>>

read_function_calls(i) ==
    LET fn == tag(kw_fn, after_blank(i))
    IN  IF fn.t = "Ok" THEN <<Call("read_function_tail", fn.rest)>> ELSE <<>>

read_root_deceleration_calls(i) ==
    alt_calls(<<"read_struct", "read_trait", "read_function">>, i)

\* One iteration of many1 after the first.
many0_root_decelerations_calls(i) ==
    LET d == apply("read_root_deceleration", i)
    IN  <<Call("read_root_deceleration", i)>>
        \o (IF d.t = "Ok" /\ Len(d.rest) # Len(i)
            THEN <<Call("many0_root_decelerations", d.rest)>>
            ELSE <<>>)

many1_root_decelerations_calls(i) ==
    LET first == apply("read_root_deceleration", i)
    IN  <<Call("read_root_deceleration", i)>>
        \o (IF first.t = "Ok"
            THEN <<Call("many0_root_decelerations", first.rest)>>
            ELSE <<>>)

parse_file_root_calls(i) ==
    IF i # <<>> THEN <<Call("many1_root_decelerations", i)>> ELSE <<>>

\* The calls the parser makes on the input i, in order.
Calls(parser, i) ==
    CASE parser = "read_operation" -> read_operation_calls(i)
      [] parser = "read_sub_operation" -> read_sub_operation_calls(i)
      [] parser = "read_binary_operator" -> read_binary_operator_calls(i)
      [] parser = "read_urinary_operator" -> read_urinary_operator_calls(i)
      [] parser = "read_assignment" -> read_assignment_calls(i)
      [] parser = "read_tuple" -> read_tuple_calls(i)
      [] parser = "many0_tuple_items" -> many0_tuple_items_calls(i)
      [] parser = "read_code_block" -> read_code_block_calls(i)
      [] parser = "many0_operations" -> many0_operations_calls(i)
      [] parser = "read_function_tail" -> read_function_tail_calls(i)
      [] parser = "read_function" -> read_function_calls(i)
      [] parser = "read_root_deceleration" -> read_root_deceleration_calls(i)
      [] parser = "many0_root_decelerations" -> many0_root_decelerations_calls(i)
      [] parser = "many1_root_decelerations" -> many1_root_decelerations_calls(i)
      [] parser = "parse_file_root" -> parse_file_root_calls(i)
      [] parser = "parse_string" -> <<Call("parse_file_root", i)>>
      [] OTHER -> <<>>

\* A parser passed by name to a combinator (alt, opt, many0, many1,
\* terminated, ...) or called by another parser, applied to the input i;
\* under the name Calls, the calls of the parser i.parser on i.input.
apply(parser, i) ==
    CASE parser = "blank" -> blank(i)
      [] parser = "Calls" -> Calls(i.parser, i.input)
      [] parser = "read_struct_or_trait_name" -> read_struct_or_trait_name(i)
      [] parser = "read_method_name" -> read_method_name(i)
      [] parser = "read_variable_name" -> read_variable_name(i)
      [] parser = "take_operator_symbol" -> take_operator_symbol(i)
      [] parser = "identify_struct_or_trait_type" -> identify_struct_or_trait_type(i)
      [] parser = "read_variable_type" -> read_variable_type(i)
      [] parser = "read_boolean_constant" -> read_boolean_constant(i)
      [] parser = "read_cast" -> read_cast(i)
      [] parser = "read_numerical_constant" -> read_numerical_constant(i)
      [] parser = "read_string_constant" -> read_string_constant(i)
      [] parser = "read_constant" -> read_constant(i)
      [] parser = "read_tuple_of_variable_names" -> read_tuple_of_variable_names(i)
      [] parser = "read_single_variable" -> read_single_variable(i)
      [] parser = "read_tuple" -> read_tuple(i)
      [] parser = "read_assignment" -> read_assignment(i)
      [] parser = "read_urinary_operator" -> read_urinary_operator(i)
      [] parser = "read_binary_operator" -> read_binary_operator(i)
      [] parser = "read_code_block" -> read_code_block(i)
      [] parser = "read_sub_operation" -> read_sub_operation(i)
      [] parser = "read_operation" -> read_operation(i)
      [] parser = "read_argument_declaration" -> read_argument_declaration(i)
      [] parser = "read_argument_deceleration_list" -> read_argument_deceleration_list(i)
      [] parser = "read_return_type" -> read_return_type(i)
      [] parser = "read_function_tail" -> read_function_tail(i)
      [] parser = "read_method" -> read_method(i)
      [] parser = "read_function" -> read_function(i)
      [] parser = "read_getter" -> read_getter(i)
      [] parser = "read_setter" -> read_setter(i)
      [] parser = "read_implementor" -> read_implementor(i)
      [] parser = "read_trait" -> read_trait(i)
      [] parser = "read_struct_variable" -> read_struct_variable(i)
      [] parser = "read_implementation" -> read_implementation(i)
      [] parser = "read_struct" -> read_struct(i)
      [] parser = "read_root_deceleration" -> read_root_deceleration(i)
      [] parser = "parse_file_root" -> parse_file_root(i)

\* Result<NLFile, ParseError>: the remaining input of parse_file_root is
\* dropped; the rendering of the message is not modelled.
parse_string(i, name) ==
    LET file == apply("parse_file_root", i)
    IN  IF file.t # "Ok"
        THEN [t |-> "Err", error |-> "ParseError"]
        ELSE [t |-> "Ok", file |-> [file.val EXCEPT !.name = name]]

(***************************************************************************)
(* Input texts.  A text is assembled from pieces; the bounds say how many. *)
(***************************************************************************)
RECURSIVE Concat(_)
\* The pieces of a sequence of texts, joined.
Concat(pieces) ==
    IF pieces = <<>> THEN <<>> ELSE Head(pieces) \o Concat(Tail(pieces))

RECURSIVE Join(_, _)
\* The texts of elems with sep between each two.
Join(elems, sep) ==
    IF elems = <<>> THEN <<>>
    ELSE IF Len(elems) = 1 THEN Head(elems)
    ELSE Head(elems) \o sep \o Join(Tail(elems), sep)

\* Every sequence of at most n elements of S.
SeqsUpTo(S, n) == UNION {[1..k -> S] : k \in 0..n}

NoResult == [t |-> "None"]

\* Expression texts: every sequence of at most MaxTokens tokens.
MaxTokens == 4

OperationTokens ==
    {<<"1">>, <<" ", "+", " ">>, <<" ", "+", " ", "2">>, <<"!", " ">>, <<"(">>, <<")">>, <<"a", " ", "=", " ">>, <<",", " ">>}

EnumeratedOperations == {Concat(ts) : ts \in SeqsUpTo(OperationTokens, MaxTokens)}

\* Groupings nested at most MaxNesting deep.
MaxNesting == 2

RECURSIVE Groupings(_)
Groupings(depth) ==
    IF depth = 0 THEN {<<"1">>, <<"2", " ", "+", " ", "3">>}
    ELSE LET inner == Groupings(depth - 1)
         IN  inner \cup {<<"(">> \o g \o <<")">> : g \in inner}
                   \cup {<<"(", "1", " ", "+", " ">> \o g \o <<")">> : g \in inner}
                   \cup {<<"(">> \o g \o <<",", " ", "4", ")">> : g \in inner}

GroupTails == {<<>>, <<" ", "+", " ", "5">>}

GroupTexts == {g \o tail : g \in Groupings(MaxNesting), tail \in GroupTails}

\* Assignments: let or not, one name or a parenthesized list of at most
\* MaxNames names, a type annotation or not, a constant right-hand side.
MaxNames == 2

LetForms == {[text |-> <<>>, is_new |-> FALSE], [text |-> <<"l", "e", "t", " ">>, is_new |-> TRUE]}

VariableNames == {<<"a">>, <<"b", "_", "c">>}

NameLists == SeqsUpTo(VariableNames, MaxNames) \ {<<>>}

NameForms ==
    {[text |-> n, names |-> <<n>>] : n \in VariableNames}
    \cup {[text |-> <<"(">> \o Join(ns, <<",", " ">>) \o <<")">>, names |-> ns] : ns \in NameLists}

TypeForms ==
    {[text |-> <<>>, type |-> TypeNone],
     [text |-> <<":", " ", "i", "3", "2">>, type |-> NLType("I32")],
     [text |-> <<" ", ":", " ", "&", "F", "o", "o">>, type |-> NLNamedType("ReferencedStruct", <<"F", "o", "o">>)]}

ConstantTexts == {<<"1">>, <<"t", "r", "u", "e">>, <<"\"", "s", "\"">>}

AssignText(let, names, type, rhs) ==
    let.text \o names.text \o type.text \o <<" ", "=", " ">> \o rhs

AssignTexts ==
    {AssignText(let, names, type, rhs) :
        let \in LetForms, names \in NameForms, type \in TypeForms, rhs \in ConstantTexts}

\* String literals: at most MaxStringItems items between the quotes, an
\* item being a plain character or a backslash escape.
MaxStringItems == 3

StringItems == {<<"a">>, <<"b">>, <<" ">>, <<"\\", "\"">>, <<"\\", "n">>}

StringContents == {Concat(items) : items \in SeqsUpTo(StringItems, MaxStringItems)}

StringTails == {<<>>, <<" ", "+", " ", "1">>}

StringText(content, tail) == <<"\"">> \o content \o <<"\"">> \o tail

StringTexts == {StringText(c, tail) : c \in StringContents, tail \in StringTails}

OperationTexts == EnumeratedOperations \cup GroupTexts \cup AssignTexts \cup StringTexts

(***************************************************************************)
(* The expression parsers applied to an expression text.                   *)
(***************************************************************************)
InitOperation ==
    /\ input \in OperationTexts
    /\ file_name = <<>>
    /\ op = "init"
    /\ result = NoResult
    /\ stack = <<>>

ReadOperation ==
    /\ op = "init"
    /\ op' = "read_operation"
    /\ result' = apply("read_operation", input)
    /\ UNCHANGED <<input, file_name, stack>>

ReadSubOperation ==
    /\ op = "init"
    /\ op' = "read_sub_operation"
    /\ result' = apply("read_sub_operation", input)
    /\ UNCHANGED <<input, file_name, stack>>

ReadTuple ==
    /\ op = "init"
    /\ op' = "read_tuple"
    /\ result' = apply("read_tuple", input)
    /\ UNCHANGED <<input, file_name, stack>>

ReadStringConstant ==
    /\ op = "init"
    /\ op' = "read_string_constant"
    /\ result' = apply("read_string_constant", input)
    /\ UNCHANGED <<input, file_name, stack>>

NextOperation ==
    \/ ReadOperation
    \/ ReadSubOperation
    \/ ReadTuple
    \/ ReadStringConstant

SpecOperation == InitOperation /\ [][NextOperation]_vars

(***************************************************************************)
(* Properties of the expression parsers.                                   *)
(***************************************************************************)
IsBinary(node) == node.kind = "Operator" /\ node.arity = 2

IsUnary(node) == node.kind = "Operator" /\ node.arity = 1

RECURSIVE BinaryOperandsRestricted(_)
\* No binary Operator node of the tree has a binary Operator as an operand.
BinaryOperandsRestricted(node) ==
    CASE node.kind = "Block" ->
            \A k \in 1..Len(node.operations) :
                BinaryOperandsRestricted(node.operations[k])
      [] node.kind = "Tuple" ->
            \A k \in 1..Len(node.items) : BinaryOperandsRestricted(node.items[k])
      [] node.kind = "Assign" -> BinaryOperandsRestricted(node.assignment)
      [] IsUnary(node) -> BinaryOperandsRestricted(node.operand)
      [] IsBinary(node) ->
            /\ ~IsBinary(node.operand_a)
            /\ ~IsBinary(node.operand_b)
            /\ BinaryOperandsRestricted(node.operand_a)
            /\ BinaryOperandsRestricted(node.operand_b)
      [] OTHER -> TRUE

RECURSIVE UnaryOperandsRestricted(_)
\* No unary Operator node of the tree has a binary Operator as its operand.
UnaryOperandsRestricted(node) ==
    CASE node.kind = "Block" ->
            \A k \in 1..Len(node.operations) :
                UnaryOperandsRestricted(node.operations[k])
      [] node.kind = "Tuple" ->
            \A k \in 1..Len(node.items) : UnaryOperandsRestricted(node.items[k])
      [] node.kind = "Assign" -> UnaryOperandsRestricted(node.assignment)
      [] IsUnary(node) ->
            /\ ~IsBinary(node.operand)
            /\ UnaryOperandsRestricted(node.operand)
      [] IsBinary(node) ->
            /\ UnaryOperandsRestricted(node.operand_a)
            /\ UnaryOperandsRestricted(node.operand_b)
      [] OTHER -> TRUE

\* C6: in every tree read_operation returns, neither operand of a binary
\* Operator node is itself a binary Operator node.
C6_BinaryOperandsNeverBinary ==
    (op = "read_operation" /\ result.t = "Ok")
        => BinaryOperandsRestricted(result.val)

\* C6 witness: the chain 1 + 2 + 2 is read as the addition of 1 and 2, and
\* the second + is left in the remaining input.
C6_ChainReadAsOneAddition ==
    /\ op = "read_operation"
    /\ input = <<"1", " ", "+", " ", "2", " ", "+", " ", "2">>
    /\ result.t = "Ok"
    /\ IsBinary(result.val)
    /\ result.val.operator = "ArithmeticAdd"
    /\ result.val.operand_b.kind = "Constant"
    /\ result.rest = <<"+", " ", "2">>

\* C7: in every tree read_operation or read_sub_operation returns, the
\* operand of a unary Operator node is never a binary Operator node.
C7_UnaryOperandNeverBinary ==
    (op \in {"read_operation", "read_sub_operation"} /\ result.t = "Ok")
        => UnaryOperandsRestricted(result.val)

RECURSIVE ScanParen(_, _, _)
ScanParen(text, k, depth) ==
    IF k > Len(text) THEN 0
    ELSE IF text[k] = "(" THEN ScanParen(text, k + 1, depth + 1)
    ELSE IF text[k] = ")"
    THEN IF depth = 1 THEN k ELSE ScanParen(text, k + 1, depth - 1)
    ELSE ScanParen(text, k + 1, depth)

\* Index of the ")" that balances the "(" text starts with, 0 if there is none.
MatchingParen(text) == ScanParen(text, 1, 0)

\* C8: read_tuple on a grouping consumes through the ")" that balances the
\* opening "(" and returns a Tuple of the operations written inside it.
C8_TupleConsumesBalancedGroup ==
    (/\ op = "read_tuple"
     /\ input \in GroupTexts
     /\ input[1] = "(")
        => /\ result.t = "Ok"
           /\ result.rest = Drop(input, MatchingParen(input))
           /\ result.val.items # <<>>

\* C9: every form of assignment (let or not, one name or a parenthesized
\* list, annotated or not) is read by read_operation as an Assign node with
\* is_new set by let, the written names and the annotated type.
C9_AssignmentForms ==
    \A let \in LetForms, names \in NameForms, type \in TypeForms, rhs \in ConstantTexts :
        (op = "read_operation" /\ input = AssignText(let, names, type, rhs))
            => /\ result.t = "Ok"
               /\ result.val.kind = "Assign"
               /\ result.val.is_new = let.is_new
               /\ result.val.to_assign = names.names
               /\ result.val.type_assignment = type.type

\* C10: read_string_constant returns exactly the text written between the
\* opening and the closing quote, and leaves what follows the closing quote.
C10_StringContentsVerbatim ==
    \A content \in StringContents, tail \in StringTails :
        (op = "read_string_constant" /\ input = StringText(content, tail))
            => /\ result.t = "Ok"
               /\ result.val.string = content
               /\ result.rest = tail

(***************************************************************************)
(* File buffers: every sequence of at most MaxPieces pieces.               *)
(***************************************************************************)
MaxPieces == 3

AddFunctionText == <<"f", "n", " ", "a", "d", "d", "(", "a", ":", " ", "i", "3", "2", ",", " ", "b", ":", " ", "i", "3", "2", ")", " ", "-", ">", " ", "i", "3", "2", " ", "{", " ", "a", " ", "}">>

BodyAndSemicolon == <<"{", "}">> \o <<";">>

\* The heads of the four declarations that end in a body or a semicolon,
\* each with the parser that reads it.
DeclarationHeads ==
    {[text |-> <<"f", "n", " ", "f", "(", ")">>, op |-> "read_function"],
     [text |-> <<"m", "e", "t", " ", "f", "(", ")">>, op |-> "read_method"],
     [text |-> <<"g", "e", "t", " ", "x", "(", ")">>, op |-> "read_getter"],
     [text |-> <<"s", "e", "t", " ", "x", "(", ")">>, op |-> "read_setter"]}

BufferPieces ==
    {h.text : h \in DeclarationHeads}
    \cup {<<"{", "}">>, <<";">>, <<"{", " ", "a", " ", "}">>, <<" ">>, <<"/", "/", " ", "c", "\n">>, <<"s", "t", "r", "u", "c", "t", " ", "A", " ", "{", "}">>, <<"s", "t", "r", "u", "c", "t", " ", "B", " ", "{">>,
          AddFunctionText}

FileBuffers == {Concat(ps) : ps \in SeqsUpTo(BufferPieces, MaxPieces)}

FileNames == {<<>>, <<"a", ".", "n", "l">>, <<"l", "i", "b">>}

(***************************************************************************)
(* parse_string and the declaration parsers applied to a file buffer.      *)
(***************************************************************************)
Init ==
    /\ input \in FileBuffers
    /\ file_name = <<>>
    /\ op = "init"
    /\ result = NoResult
    /\ stack = <<>>

ParseString ==
    /\ op = "init"
    /\ \E name \in FileNames :
          /\ file_name' = name
          /\ result' = parse_string(input, name)
    /\ op' = "parse_string"
    /\ UNCHANGED <<input, stack>>

ReadFunction ==
    /\ op = "init"
    /\ op' = "read_function"
    /\ result' = apply("read_function", input)
    /\ UNCHANGED <<input, file_name, stack>>

ReadMethod ==
    /\ op = "init"
    /\ op' = "read_method"
    /\ result' = apply("read_method", input)
    /\ UNCHANGED <<input, file_name, stack>>

ReadGetter ==
    /\ op = "init"
    /\ op' = "read_getter"
    /\ result' = apply("read_getter", input)
    /\ UNCHANGED <<input, file_name, stack>>

ReadSetter ==
    /\ op = "init"
    /\ op' = "read_setter"
    /\ result' = apply("read_setter", input)
    /\ UNCHANGED <<input, file_name, stack>>

Next ==
    \/ ParseString
    \/ ReadFunction
    \/ ReadMethod
    \/ ReadGetter
    \/ ReadSetter

Spec == Init /\ [][Next]_vars

(***************************************************************************)
(* Properties of parse_string and the declaration parsers.                 *)
(***************************************************************************)
\* C1: parse_string returns a file only when nothing but whitespace and
\* comments is left after the last declaration the top-level loop read.
C1_FileOnlyWhenBufferConsumed ==
    (op = "parse_string" /\ result.t = "Ok")
        => after_blank(parse_file_root(input).rest) = <<>>

EmptyFile(name) ==
    [name |-> name, structs |-> <<>>, traits |-> <<>>, functions |-> <<>>]

\* C2: for every file name n, parse_string of the empty buffer succeeds with
\* a file named n whose struct, trait and function lists are empty.
C2_EmptyBufferGivesEmptyFile ==
    (op = "parse_string" /\ input = <<>>)
        => result = [t |-> "Ok", file |-> EmptyFile(file_name)]

\* C2 witness: the empty buffer parsed under the name a.nl.
C2_EmptyBufferParsed ==
    /\ op = "parse_string"
    /\ input = <<>>
    /\ file_name = <<"a", ".", "n", "l">>
    /\ result.t = "Ok"
    /\ result.file.name = <<"a", ".", "n", "l">>
    /\ result.file.functions = <<>>

\* C3: fn add(a: i32, b: i32) -> i32 { a } parses to one function add with
\* the arguments a and b of type i32, return type i32 and a body that holds
\* an operation; a body whose only content is a variable name is accepted.
C3_AddFunctionParses ==
    /\ (op = "parse_string" /\ input = AddFunctionText)
          => /\ result.t = "Ok"
             /\ Len(result.file.functions) = 1
             /\ LET add == result.file.functions[1].function
                IN  /\ add.name = <<"a", "d", "d">>
                    /\ add.arguments = <<NLArgument(<<"a">>, NLType("I32")),
                                         NLArgument(<<"b">>, NLType("I32"))>>
                    /\ add.return_type = NLType("I32")
                    /\ add.block.some
                    /\ Len(add.block.operations) >= 1
    /\ (op = "read_function" /\ input = <<"f", "n", " ", "f", "(", ")">> \o <<"{", " ", "a", " ", "}">>)
          => result.t = "Ok"

\* C4: a function, method, getter or setter is accepted only when it ends
\* in exactly one of a body block and a semicolon: written with both, or
\* with neither, it is accepted neither by its parser nor by parse_string.
C4_BodyXorSemicolon ==
    \A h \in DeclarationHeads :
        /\ (op = h.op /\ input \in {h.text, h.text \o BodyAndSemicolon})
              => ~(result.t = "Ok" /\ result.rest = <<>>)
        /\ (op = "parse_string" /\ h.op = "read_function"
                /\ input \in {h.text, h.text \o BodyAndSemicolon})
              => result.t # "Ok"

(***************************************************************************)
(* Lists: struct fields, arguments, operation tuples and variable-name     *)
(* tuples of at most MaxElems elements, each written without and with a    *)
(* comma before the closing delimiter.                                     *)
(***************************************************************************)
MaxElems == 2

FieldTexts == {<<"x", ":", " ", "i", "3", "2">>, <<"y", " ", ":", " ", "&", "m", "u", "t", " ", "d", "y", "n", " ", "T", " ">>, <<"z", ":", " ", "F", "o", "o">>}

ArgumentTexts == {<<"a", ":", " ", "i", "3", "2">>, <<"&", "s", "e", "l", "f">>, <<"&", "m", "u", "t", " ", "s", "e", "l", "f", " ">>, <<"b", ":", " ", "&", "F", "o", "o">>}

ItemTexts == {<<"1">>, <<"2", " ", "+", " ", "3">>, <<"\"", "s", "\"">>, <<"a", " ", "=", " ", "t", "r", "u", "e">>, <<"!", " ", "1", " ">>}

NameTexts == VariableNames \cup {<<"d", " ">>}

ListKinds ==
    {[op |-> "read_struct", prefix |-> <<"s", "t", "r", "u", "c", "t", " ", "A", " ">>, open |-> <<"{">>,
      close |-> <<"}">>, elems |-> FieldTexts],
     [op |-> "read_argument_deceleration_list", prefix |-> <<>>, open |-> <<"(">>,
      close |-> <<")">>, elems |-> ArgumentTexts],
     [op |-> "read_tuple", prefix |-> <<>>, open |-> <<"(">>,
      close |-> <<")">>, elems |-> ItemTexts],
     [op |-> "read_tuple_of_variable_names", prefix |-> <<>>, open |-> <<"(">>,
      close |-> <<")">>, elems |-> NameTexts]}

Separators == {<<",">>, <<",", " ">>, <<" ", ",", " ">>}

ListTails == {<<>>, <<" ", "x">>}

ListText(kind, elems, sep, trailing, tail) ==
    kind.prefix \o kind.open \o Join(elems, sep)
        \o (IF trailing THEN <<",">> ELSE <<>>) \o kind.close \o tail

\* Each list with its two spellings.
ListCases ==
    UNION {{[op       |-> kind.op,
             elems    |-> elems,
             plain    |-> ListText(kind, elems, sep, FALSE, tail),
             trailing |-> ListText(kind, elems, sep, TRUE, tail)] :
                elems \in SeqsUpTo(kind.elems, MaxElems),
                sep \in Separators, tail \in ListTails} :
           kind \in ListKinds}

ListTexts == {c.plain : c \in ListCases} \cup {c.trailing : c \in ListCases}

InitList ==
    /\ input \in ListTexts
    /\ file_name = <<>>
    /\ op = "init"
    /\ result = NoResult
    /\ stack = <<>>

ReadStruct ==
    /\ op = "init"
    /\ op' = "read_struct"
    /\ result' = apply("read_struct", input)
    /\ UNCHANGED <<input, file_name, stack>>

ReadArgumentDecelerationList ==
    /\ op = "init"
    /\ op' = "read_argument_deceleration_list"
    /\ result' = apply("read_argument_deceleration_list", input)
    /\ UNCHANGED <<input, file_name, stack>>

ReadTupleOfVariableNames ==
    /\ op = "init"
    /\ op' = "read_tuple_of_variable_names"
    /\ result' = apply("read_tuple_of_variable_names", input)
    /\ UNCHANGED <<input, file_name, stack>>

NextList ==
    \/ ReadStruct
    \/ ReadArgumentDecelerationList
    \/ ReadTuple
    \/ ReadTupleOfVariableNames

SpecList == InitList /\ [][NextList]_vars

\* The list parser named name, applied to text.
ReadList(name, text) ==
    CASE name = "read_struct" -> read_struct(text)
      [] name = "read_argument_deceleration_list" ->
            read_argument_deceleration_list(text)
      [] name = "read_tuple" -> read_tuple(text)
      [] name = "read_tuple_of_variable_names" ->
            read_tuple_of_variable_names(text)

\* The case's parser, applied to its spelling without the trailing comma,
\* succeeded, and gives the same elements and remaining input with it.
TrailingSeparatorInsensitive(c) ==
    (op = c.op /\ input = c.plain)
        => /\ result.t = "Ok"
           /\ result = ReadList(c.op, c.trailing)

MaxRunLen == 3

RunChars == {"1", "0", ".", "-"}

\* fits: the run has no '.' and is a decimal of the i64 range, or has one.
\* long: its value is beyond what the model's integers hold.
ShortRuns ==
    {[text |-> r, long |-> FALSE, fits |-> TRUE] :
        r \in SeqsUpTo(RunChars, MaxRunLen) \ {<<>>}}

LongRuns ==
    {[text |-> <<"4", "2">>, long |-> FALSE, fits |-> TRUE],
     [text |-> <<"9", "2", "2", "3", "3", "7", "2", "0", "3", "6", "8", "5", "4", "7", "7", "5", "8", "0", "7">>, long |-> TRUE, fits |-> TRUE],
     [text |-> <<"-", "9", "2", "2", "3", "3", "7", "2", "0", "3", "6", "8", "5", "4", "7", "7", "5", "8", "0", "8">>, long |-> TRUE, fits |-> TRUE],
     [text |-> <<"9", "2", "2", "3", "3", "7", "2", "0", "3", "6", "8", "5", "4", "7", "7", "5", "8", "0", "8">>, long |-> TRUE, fits |-> FALSE],
     [text |-> <<"-", "9", "2", "2", "3", "3", "7", "2", "0", "3", "6", "8", "5", "4", "7", "7", "5", "8", "0", "9">>, long |-> TRUE, fits |-> FALSE],
     [text |-> <<"9", "9", "9", "9", "9", "9", "9", "9", "9", "9", "9", "9", "9", "9", "9", "9", "9", "9", "9", "9">>, long |-> TRUE, fits |-> FALSE]}

NumberTails ==
    {[text |-> <<>>, cast |-> TypeNone],
     [text |-> <<" ", "a", "s", " ", "u", "8">>, cast |-> NLType("U8")],
     [text |-> <<"a", "s", " ", "i", "6", "4", " ">>, cast |-> NLType("I64")],
     [text |-> <<" ", "a", "s", " ", "F", "o", "o">>, cast |-> NLNamedType("OwnedStruct", <<"F", "o", "o">>)],
     [text |-> <<" ", "+", " ", "1">>, cast |-> TypeNone]}

NumberCases ==
    {[run |-> r, tail |-> tail, text |-> r.text \o tail.text] :
        r \in ShortRuns \cup LongRuns, tail \in NumberTails}

InitNumber ==
    /\ input \in {n.text : n \in NumberCases}
    /\ file_name = <<>>
    /\ op = "init"
    /\ result = NoResult
    /\ stack = <<>>

ReadNumericalConstant ==
    /\ op = "init"
    /\ op' = "read_numerical_constant"
    /\ result' = apply("read_numerical_constant", input)
    /\ UNCHANGED <<input, file_name, stack>>

ReadConstant ==
    /\ op = "init"
    /\ op' = "read_constant"
    /\ result' = apply("read_constant", input)
    /\ UNCHANGED <<input, file_name, stack>>

NextNumber ==
    \/ ReadNumericalConstant
    \/ ReadConstant

SpecNumber == InitNumber /\ [][NextNumber]_vars

RECURSIVE DecimalValue(_)
\* The number a sequence of digits denotes.
DecimalValue(d) ==
    IF d = <<>> THEN 0
    ELSE 10 * DecimalValue(Take(d, Len(d) - 1)) + DigitValue(d[Len(d)])

Unsigned(r) == IF r # <<>> /\ r[1] = "-" THEN Drop(r, 1) ELSE r

\* -?[0-9]+
IsDecimal(r) ==
    /\ Unsigned(r) # <<>>
    /\ \A k \in 1..Len(Unsigned(r)) : Unsigned(r)[k] \in Digit

\* -?[0-9]*\.[0-9]* with at least one digit
IsDecimalFraction(r) ==
    \E k \in 1..Len(Unsigned(r)) :
        /\ Unsigned(r)[k] = "."
        /\ \A j \in (1..Len(Unsigned(r))) \ {k} : Unsigned(r)[j] \in Digit
        /\ Len(Unsigned(r)) > 1

\* The number an Integer constant's value denotes.
IntegerOf(value) ==
    IF value.negative THEN 0 - DecimalValue(value.magnitude)
    ELSE DecimalValue(value.magnitude)

\* What C11 says read_numerical_constant returns for the case n.
NumericalConstantAsSpecified(n) ==
    LET r == n.run.text
    IN  IF \A k \in 1..Len(r) : r[k] # "."
        THEN IF IsDecimal(r) /\ n.run.fits
             THEN /\ result.t = "Ok"
                  /\ result.val.kind = "Integer"
                  /\ result.val.cast = n.tail.cast
                  /\ IF n.run.long
                     THEN result.val.value =
                            [negative |-> r[1] = "-", magnitude |-> Unsigned(r)]
                     ELSE IntegerOf(result.val.value) =
                            (IF r[1] = "-" THEN 0 - DecimalValue(Unsigned(r))
                             ELSE DecimalValue(r))
             ELSE result.t = "Error"
        ELSE IF IsDecimalFraction(r)
             THEN /\ result.t = "Ok"
                  /\ result.val.kind = "Float"
                  /\ result.val.float.text = r
                  /\ result.val.cast = n.tail.cast
             ELSE result.t = "Error"

\* C11: on a maximal run of digits, '.' and '-', read_numerical_constant
\* returns the Integer of the run's value when the run has no '.' and is a
\* decimal of the signed 64-bit range, a Float when the run has a '.' and
\* converts, with the type of a following `as` clause as cast (None without
\* one), and a recoverable Error for every run that does not convert.
C11_NumericalConstant ==
    \A n \in NumberCases :
        (op = "read_numerical_constant" /\ input = n.text)
            => NumericalConstantAsSpecified(n)

\* C11 witness: 42 as u8 read as the Integer 42 with cast U8.
C11_FortyTwoAsU8 ==
    /\ op = "read_numerical_constant"
    /\ input = <<"4", "2", " ", "a", "s", " ", "u", "8">>
    /\ result.t = "Ok"
    /\ result.val.kind = "Integer"
    /\ IntegerOf(result.val.value) = 42
    /\ result.val.cast = NLType("U8")
    /\ result.rest = <<>>

\* C11 witness of the error side: 2^63 is beyond the range and is an Error.
C11_BeyondRangeIsError ==
    /\ op = "read_numerical_constant"
    /\ input = <<"9", "2", "2", "3", "3", "7", "2", "0", "3", "6", "8", "5", "4", "7", "7", "5", "8", "0", "8">>
    /\ result.t = "Error"

(***************************************************************************)
(* Type tokens and names: every type word behind every reference, mut and  *)
(* dyn prefix, and every name of at most MaxNameLen characters.            *)
(***************************************************************************)
MaxNameLen == 3

TypeKeywords ==
    {[word |-> <<"i", "8">>, kind |-> "I8"], [word |-> <<"i", "1", "6">>, kind |-> "I16"],
     [word |-> <<"i", "3", "2">>, kind |-> "I32"], [word |-> <<"i", "6", "4">>, kind |-> "I64"],
     [word |-> <<"u", "8">>, kind |-> "U8"], [word |-> <<"u", "1", "6">>, kind |-> "U16"],
     [word |-> <<"u", "3", "2">>, kind |-> "U32"], [word |-> <<"u", "6", "4">>, kind |-> "U64"],
     [word |-> <<"f", "3", "2">>, kind |-> "F32"], [word |-> <<"f", "6", "4">>, kind |-> "F64"],
     [word |-> <<"b", "o", "o", "l">>, kind |-> "Boolean"], [word |-> <<"s", "t", "r">>, kind |-> "OwnedString"]}

TypeWords ==
    {k.word : k \in TypeKeywords}
    \cup {<<"F", "o", "o">>, <<"s", "t", "r", "i", "n", "g">>, <<"s", "t", "r", "a", "n", "g", "e">>, <<"i", "3", "2", "x">>, <<"b", "o", "o", "l", "e", "a", "n">>, <<"s", "t">>}

TypePrefixes == {<<>>, <<"&">>, <<"&", " ">>, <<"&", "m", "u", "t", " ">>, <<"d", "y", "n", " ">>, <<"&", "d", "y", "n", " ">>, <<"&", "m", "u", "t", " ", "d", "y", "n", " ">>}

TypeTails == {<<>>, <<" ">>, <<";">>, <<",", " ", "b">>}

TypeCases ==
    {[token |-> prefix \o word, tail |-> tail, text |-> prefix \o word \o tail] :
        prefix \in TypePrefixes, word \in TypeWords, tail \in TypeTails}

NameChars == {"a", "B", "_", "1", "-"}

WrittenNames == SeqsUpTo(NameChars, MaxNameLen) \ {<<>>}

InitToken ==
    /\ input \in {c.text : c \in TypeCases} \cup WrittenNames
    /\ file_name = <<>>
    /\ op = "init"
    /\ result = NoResult
    /\ stack = <<>>

ReadVariableType ==
    /\ op = "init"
    /\ op' = "read_variable_type"
    /\ result' = apply("read_variable_type", input)
    /\ UNCHANGED <<input, file_name, stack>>

IdentifyStructOrTraitType ==
    /\ op = "init"
    /\ op' = "identify_struct_or_trait_type"
    /\ result' = apply("identify_struct_or_trait_type", input)
    /\ UNCHANGED <<input, file_name, stack>>

ReadStructOrTraitName ==
    /\ op = "init"
    /\ op' = "read_struct_or_trait_name"
    /\ result' = apply("read_struct_or_trait_name", input)
    /\ UNCHANGED <<input, file_name, stack>>

ReadMethodName ==
    /\ op = "init"
    /\ op' = "read_method_name"
    /\ result' = apply("read_method_name", input)
    /\ UNCHANGED <<input, file_name, stack>>

ReadVariableName ==
    /\ op = "init"
    /\ op' = "read_variable_name"
    /\ result' = apply("read_variable_name", input)
    /\ UNCHANGED <<input, file_name, stack>>

NextToken ==
    \/ ReadVariableType
    \/ IdentifyStructOrTraitType
    \/ ReadStructOrTraitName
    \/ ReadMethodName
    \/ ReadVariableName

SpecToken == InitToken /\ [][NextToken]_vars

PrimitiveKinds == {k.kind : k \in TypeKeywords} \cup {"BorrowedString"}

StructOrTraitKinds ==
    {"OwnedStruct", "ReferencedStruct", "MutableReferencedStruct",
     "OwnedTrait", "ReferencedTrait", "MutableReferencedTrait"}

\* C12: read_variable_type returns a primitive or string variant only when
\* the type token is exactly that variant's keyword; every other token is
\* resolved to one of the six struct or trait variants, or is an error, and
\* is consumed whole.
C12_VariableTypeByExactKeyword ==
    \A c \in TypeCases :
        (op = "read_variable_type" /\ input = c.text)
            => IF \E k \in TypeKeywords : k.word = c.token
               THEN /\ result.t = "Ok"
                    /\ \E k \in TypeKeywords :
                           k.word = c.token /\ result.val = NLType(k.kind)
               ELSE \/ result.t # "Ok"
                    \/ /\ result.val.kind \in StructOrTraitKinds
                       /\ Len(result.rest) <= Len(c.tail)

\* The longest prefix of n written in the class C13 gives a name: letters
\* and underscores, and digits too after the first character if digits_after.
NameAsSpecified(n, digits_after) ==
    IF n[1] \notin is_name THEN <<>>
    ELSE Take(n, PrefixLen(n, IF digits_after THEN is_name \cup Digit ELSE is_name))

\* C13: read_struct_or_trait_name accepts exactly a run of letters and
\* underscores; read_method_name and read_variable_name accept exactly a run
\* of letters and underscores that may hold digits after its first
\* character; a character outside the class is not consumed into the name.
C13_NameClasses ==
    \A n \in WrittenNames :
        (input = n /\ op \in {"read_struct_or_trait_name", "read_method_name",
                              "read_variable_name"})
            => LET name == NameAsSpecified(n, op # "read_struct_or_trait_name")
               IN  IF name = <<>> THEN result.t = "Error"
                   ELSE /\ result.t = "Ok"
                        /\ result.val = name
                        /\ result.rest = Drop(n, Len(name))

(***************************************************************************)
(* Operator symbols: every run of at most MaxSymbolLen symbol characters   *)
(* after a left operand (binary) or at the start (unary), before every     *)
(* text of FollowTexts; and every constant, recognised symbol, constant.   *)
(***************************************************************************)
MaxSymbolLen == 2

SymbolChars == {"=", "!", "~", "*", "-", "<", "&"}

SymbolRuns == SeqsUpTo(SymbolChars, MaxSymbolLen) \ {<<>>}

\* The 19 arms of the match of read_binary_operator, as written.
BinarySymbols ==
    {[symbol |-> <<"=", "=">>, operator |-> "CompareEqual"],
     [symbol |-> <<"!", "=">>, operator |-> "CompareNotEqual"],
     [symbol |-> <<">", "=">>, operator |-> "CompareGreaterEqual"],
     [symbol |-> <<"<", "=">>, operator |-> "CompareLessEqual"],
     [symbol |-> <<">">>, operator |-> "CompareGreater"],
     [symbol |-> <<"<">>, operator |-> "CompareLess"],
     [symbol |-> <<"&", "&">>, operator |-> "LogicalAnd"],
     [symbol |-> <<"|", "|">>, operator |-> "LogicalOr"],
     [symbol |-> <<"^", "^">>, operator |-> "LogicalXor"],
     [symbol |-> <<"&">>, operator |-> "BitAnd"],
     [symbol |-> <<"|">>, operator |-> "BitOr"],
     [symbol |-> <<"^">>, operator |-> "BitXor"],
     [symbol |-> <<"<", "<">>, operator |-> "BitLeftShift"],
     [symbol |-> <<">", ">">>, operator |-> "BitRightShift"],
     [symbol |-> <<"+">>, operator |-> "ArithmeticAdd"],
     [symbol |-> <<"-">>, operator |-> "ArithmeticSub"],
     [symbol |-> <<"%">>, operator |-> "ArithmeticMod"],
     [symbol |-> <<"/">>, operator |-> "ArithmeticDiv"],
     [symbol |-> <<"*">>, operator |-> "ArithmeticMul"]}

UnarySymbols == {<<"!">>, <<"~">>, <<"-">>}

LeftOperands == {<<"1">>, <<"\"", "s", "\"">>}

\* What follows the symbol run: an operand, nothing, or text that is none.
FollowTexts == {<<"2">>, <<>>, <<"x">>, <<")">>, <<"(", "2", ")">>, <<"t", "r", "u", "e">>, <<"{", "}">>}

BinaryCases ==
    {[run |-> run, follow |-> follow,
      text |-> left \o <<" ">> \o run \o <<" ">> \o follow] :
        left \in LeftOperands, run \in SymbolRuns, follow \in FollowTexts}

UnaryCases ==
    {[run |-> run, follow |-> follow, text |-> run \o gap \o follow] :
        run \in SymbolRuns, follow \in FollowTexts, gap \in {<<>>, <<" ">>}}

WrittenConstants ==
    {[text |-> <<"t", "r", "u", "e">>, val |-> [kind |-> "Boolean", bool |-> TRUE]],
     [text |-> <<"f", "a", "l", "s", "e">>, val |-> [kind |-> "Boolean", bool |-> FALSE]],
     [text |-> <<"1">>, val |-> [kind |-> "Integer", cast |-> TypeNone,
                             value |-> [negative |-> FALSE, magnitude |-> <<"1">>]]],
     [text |-> <<"2", ".", "5">>, val |-> [kind |-> "Float", cast |-> TypeNone,
                               float |-> [text |-> <<"2", ".", "5">>]]],
     [text |-> <<"\"", "s", "\"">>, val |-> [kind |-> "String", string |-> <<"s">>]]}

ConstantPairCases ==
    {[x |-> x, s |-> s, y |-> y, text |-> x.text \o <<" ">> \o s.symbol \o <<" ">> \o y.text] :
        x \in WrittenConstants, s \in BinarySymbols, y \in WrittenConstants}

InitSymbol ==
    /\ input \in {c.text : c \in BinaryCases}
                 \cup {c.text : c \in UnaryCases}
                 \cup {c.text : c \in ConstantPairCases}
    /\ file_name = <<>>
    /\ op = "init"
    /\ result = NoResult
    /\ stack = <<>>

ReadBinaryOperator ==
    /\ op = "init"
    /\ op' = "read_binary_operator"
    /\ result' = apply("read_binary_operator", input)
    /\ UNCHANGED <<input, file_name, stack>>

ReadUrinaryOperator ==
    /\ op = "init"
    /\ op' = "read_urinary_operator"
    /\ result' = apply("read_urinary_operator", input)
    /\ UNCHANGED <<input, file_name, stack>>

NextSymbol ==
    \/ ReadBinaryOperator
    \/ ReadUrinaryOperator
    \/ ReadOperation

SpecSymbol == InitSymbol /\ [][NextSymbol]_vars

\* C14: when read_binary_operator has read a left operand and then a symbol
\* run that is none of the 19 recognised symbols, its result is Failure
\* whatever follows, and read_operation around it is Failure too, no later
\* alternative being tried; read_urinary_operator is Failure for every
\* symbol run other than !, ~ and -.
C14_UnknownSymbolIsFailure ==
    /\ \A c \in BinaryCases :
           (/\ input = c.text
            /\ op \in {"read_binary_operator", "read_operation"}
            /\ \A s \in BinarySymbols : s.symbol # c.run)
               => result.t = "Failure"
    /\ \A c \in UnaryCases :
           (/\ input = c.text
            /\ op = "read_urinary_operator"
            /\ c.run \notin UnarySymbols)
               => result.t = "Failure"

(***************************************************************************)
(* Argument lists: at most MaxArgs written arguments between ( and ),      *)
(* separated by a comma or only by a space, with or without a final comma. *)
(***************************************************************************)
MaxArgs == 2

\* named: written as name: type.
WrittenArguments ==
    {[text |-> <<"a", ":", " ", "i", "3", "2">>, name |-> <<"a">>, named |-> TRUE],
     [text |-> <<"b", " ", ":", " ", "&", "F", "o", "o">>, name |-> <<"b">>, named |-> TRUE],
     [text |-> <<"a", "1", ":", " ", "i", "3", "2">>, name |-> <<"a", "1">>, named |-> TRUE],
     [text |-> <<"s", "e", "l", "f", ":", " ", "i", "3", "2">>, name |-> kw_self, named |-> TRUE],
     [text |-> <<"&", "s", "e", "l", "f">>, name |-> kw_self, named |-> FALSE],
     [text |-> <<"&", " ", "m", "u", "t", " ", "s", "e", "l", "f">>, name |-> kw_self, named |-> FALSE],
     [text |-> <<"&", "m", "u", "t", " ", "s", "e", "l", "f">>, name |-> kw_self, named |-> FALSE]}

ArgumentSeparators == {<<",", " ">>, <<" ">>, <<",">>}

ArgumentEnds == {<<>>, <<",">>, <<" ">>}

WrittenArgumentList(args, sep, end) ==
    <<"(">> \o Join([k \in 1..Len(args) |-> args[k].text], sep) \o end \o <<")">>

ArgumentListCases ==
    {[args |-> args, text |-> WrittenArgumentList(args, sep, end) \o tail] :
        args \in SeqsUpTo(WrittenArguments, MaxArgs),
        sep \in ArgumentSeparators, end \in ArgumentEnds, tail \in {<<>>, <<" ", "-", ">", " ", "i", "3", "2", ";">>}}

InitArguments ==
    /\ input \in {c.text : c \in ArgumentListCases}
    /\ file_name = <<>>
    /\ op = "init"
    /\ result = NoResult
    /\ stack = <<>>

\* read_argument_declaration on what is written after the opening (.
ReadArgumentDeclaration ==
    /\ op = "init"
    /\ op' = "read_argument_declaration"
    /\ result' = apply("read_argument_declaration", Drop(input, 1))
    /\ UNCHANGED <<input, file_name, stack>>

NextArguments ==
    \/ ReadArgumentDecelerationList
    \/ ReadArgumentDeclaration

SpecArguments == InitArguments /\ [][NextArguments]_vars

SelfReferenceKinds == {"SelfReference", "MutableSelfReference"}

\* C15: in every list read_argument_deceleration_list returns, an argument
\* is named self exactly when its type is SelfReference or
\* MutableSelfReference, and only a bare &self or &mut self gives one.
C15_SelfNameIffSelfType ==
    \A c \in ArgumentListCases :
        (op = "read_argument_deceleration_list" /\ input = c.text /\ result.t = "Ok")
            => \A k \in 1..Len(result.val) :
                   /\ (result.val[k].name = kw_self)
                          <=> (result.val[k].nl_type.kind \in SelfReferenceKinds)
                   /\ (result.val[k].name = kw_self)
                          => \E a \in WrittenArguments :
                                 /\ ~a.named
                                 /\ \E j \in 1..Len(c.args) : c.args[j] = a

\* C18: when read_argument_deceleration_list succeeds, its list holds one
\* NLArgument for each argument written between ( and ), in the order
\* written, so that nothing written there but blanks is discarded.
C18_EveryWrittenArgumentReturned ==
    \A c \in ArgumentListCases :
        (op = "read_argument_deceleration_list" /\ input = c.text /\ result.t = "Ok")
            => /\ Len(result.val) = Len(c.args)
               /\ \A k \in 1..Len(c.args) : result.val[k].name = c.args[k].name

\* C16: for every non-empty buffer parse_string returns a file that holds
\* at least one struct, trait or function, or an error; when no struct,
\* trait or function is recognised at the start of the buffer, a buffer of
\* only whitespace and comments included, it returns an error.
C16_NonEmptyBufferNeverEmptyFile ==
    (op = "parse_string" /\ input # <<>>)
        => /\ result # [t |-> "Ok", file |-> EmptyFile(file_name)]
           /\ apply("read_root_deceleration", input).t # "Ok" => result.t = "Err"

\* C16 witness: a buffer of a space and a comment is an error.
C16_BlankBufferIsError ==
    /\ op = "parse_string"
    /\ input = <<" ", "/", "/", " ", "c", "\n">>
    /\ apply("read_root_deceleration", input).t = "Error"
    /\ result.t = "Err"

\* An NLOperation::Constant node.
OpConstant(val) == [kind |-> "Constant", constant |-> val]

\* C17: for all literal constants x and y and each of the 19 binary symbols
\* s, read_operation on x s y returns the Operator node that s maps to, with
\* x as its left and y as its right operand, although the assignment
\* alternative is tried before the binary-operator alternative.
C17_ConstantPairReadAsOperator ==
    \A c \in ConstantPairCases :
        (op = "read_operation" /\ input = c.text)
            => /\ result.t = "Ok"
               /\ result.val = OpBinary(c.s.operator, OpConstant(c.x.val), OpConstant(c.y.val))
               /\ result.rest = <<>>

(***************************************************************************)
(* An operation followed call by call: Enter pushes the frame of the       *)
(* operation, MakeCall the frame of the next call of the parser on top,    *)
(* and Return pops the frame of a parser that has made all its calls.      *)
(***************************************************************************)
\* Operations nested to a depth of at most MaxDepth.
MaxDepth == 2

NestingAtoms == {<<"1">>, <<"x">>, <<>>}

NestingsOf(t) ==
    {<<"(">> \o t \o <<")">>, <<"{", " ">> \o t \o <<" ", "}">>, <<"!", " ">> \o t, <<"a", " ", "=", " ">> \o t,
     t \o <<" ", "+", " ", "2">>, <<"(", "1", ",", " ">> \o t \o <<")">>}

RECURSIVE NestedOperations(_)
NestedOperations(depth) ==
    IF depth = 0 THEN NestingAtoms
    ELSE NestedOperations(depth - 1)
         \cup UNION {NestingsOf(t) : t \in NestedOperations(depth - 1)}

NestedFiles ==
    {<<"f", "n", " ", "f", "(", ")", " ">> \o t \o <<" ", "f", "n", " ", "g", "(", ")", ";">> : t \in NestedOperations(MaxDepth)}

RootParsers == {"read_operation", "parse_string"}

InitCalls ==
    /\ input \in NestedOperations(MaxDepth) \cup NestedFiles
    /\ file_name = <<>>
    /\ op = "init"
    /\ result = NoResult
    /\ stack = <<>>

Frame(call) == [parser |-> call.parser, input |-> call.input, next |-> 1]

Top == stack[Len(stack)]

\* The calls of the parser of a frame on the input of the frame.
CallsOf(frame) == apply("Calls", Call(frame.parser, frame.input))

\* The operation is entered.
Enter ==
    /\ op = "init"
    /\ \E parser \in RootParsers :
          /\ op' = parser
          /\ stack' = <<Frame(Call(parser, input))>>
    /\ UNCHANGED <<input, file_name, result>>

\* The parser on top of the stack makes its next call.
MakeCall ==
    /\ stack # <<>>
    /\ Top.next <= Len(CallsOf(Top))
    /\ stack' = Append([stack EXCEPT ![Len(stack)].next = @ + 1],
                       Frame(CallsOf(Top)[Top.next]))
    /\ UNCHANGED <<input, file_name, op, result>>

\* The parser on top of the stack has made all its calls and returns; the
\* return of the first frame is the return of the operation.
Return ==
    /\ stack # <<>>
    /\ Top.next > Len(CallsOf(Top))
    /\ stack' = SubSeq(stack, 1, Len(stack) - 1)
    /\ result' = IF Len(stack) > 1 THEN result
                 ELSE IF op = "parse_string" THEN parse_string(input, file_name)
                 ELSE apply(op, input)
    /\ UNCHANGED <<input, file_name, op>>

NextCalls ==
    \/ Enter
    \/ MakeCall
    \/ Return

\* An operation that can be entered is entered, and a parser that has been
\* entered runs on: weak fairness of Enter and of MakeCall \/ Return.  One
\* of MakeCall and Return is enabled exactly when the stack is not empty,
\* which is what the second condition spells out.
SpecCalls ==
    /\ InitCalls
    /\ [][NextCalls]_vars
    /\ WF_vars(Enter)
    /\ ([]<>(stack = <<>>) \/ []<><<MakeCall \/ Return>>_vars)

\* The number of alternatives and iterations a parser can still go through
\* on the same input: a parser calls only parsers of a lower rank on an
\* input of the same length.
Rank(parser) ==
    CASE parser = "parse_string" -> 9
      [] parser = "parse_file_root" -> 8
      [] parser = "many1_root_decelerations" -> 7
      [] parser = "many0_root_decelerations" -> 6
      [] parser = "read_root_deceleration" -> 5
      [] parser \in {"many0_operations", "many0_tuple_items"} -> 4
      [] parser = "read_operation" -> 3
      [] parser = "read_binary_operator" -> 2
      [] parser = "read_sub_operation" -> 1
      [] OTHER -> 0

\* call is on a strictly shorter input than frame's, or on an input of the
\* same length with a strictly smaller set of alternatives.
Descends(frame, call) ==
    \/ Len(call.input) < Len(frame.input)
    \/ /\ Len(call.input) = Len(frame.input)
       /\ Rank(call.parser) < Rank(frame.parser)

Returned == op \in RootParsers /\ stack = <<>> /\ result # NoResult

\* C19: on every input the operation eventually returns: every call made by
\* read_operation, read_sub_operation, read_binary_operator,
\* read_urinary_operator, read_assignment, read_tuple and read_code_block is
\* on a strictly shorter input or with a strictly smaller alternative set,
\* and every iteration of a repetition is on a strictly shorter input than
\* the one before it.
C19_EveryCallDescendsAndReturns ==
    /\ [][Len(stack') > Len(stack) /\ Len(stack) > 0
             => Descends(Top, stack'[Len(stack')])]_vars
    /\ <>Returned

\* C19 witness: parse_string has returned the file of a function whose body
\* nests an assignment in a block.
C19_NestedBodyReturned ==
    /\ Returned
    /\ op = "parse_string"
    /\ input = <<"f", "n", " ", "f", "(", ")", " ", "{", " ", "a", " ", "=", " ", "1", " ", "}", " ", "f", "n", " ", "g", "(", ")", ";">>
    /\ result.t = "Ok"
    /\ Len(result.file.functions) = 2
====
